---- MODULE Spec2Model ----
(***************************************************************************)
(* Model of timely-adapter/src/connect.rs: the logging hook installed by   *)
(* log_pag (frontier tracking, fuel, wrap-up) and the replayer factory     *)
(* make_replayers over the shared socket collection of open_sockets.       *)
(***************************************************************************)
EXTENDS Integers, Sequences, FiniteSets, TLC

\* ------------------------------------------------------------------------
\* Bounds of the model
\* ------------------------------------------------------------------------
\* const MAX_FUEL: usize = 512, scaled down so that a forced flush happens
MAX_FUEL == 2
\* events per delivered batch
MaxBatch == 2
\* events delivered in one session
MaxEvents == 4
\* largest physical time an event carries
MaxTime == 2
\* hook invocations after the four batches of the concrete scenario
MaxLater == 2
\* MAX_FUEL of the concrete scenario
ScenarioFuel == 4
\* largest number of source peers / worker peers
MaxPeers == 2
\* worker threads calling make_replayers
MaxThreads == 2
\* calls of make_replayers in one run
MaxCalls == 3

\* ------------------------------------------------------------------------
\* State
\* ------------------------------------------------------------------------
VARIABLES
    new_frontier,           \* pending frontier, Pair<u64, Duration>
    allow_frontier_update,  \* physical time may still be captured
    curr_frontier,          \* committed frontier
    buffer,                 \* events since the last flush
    wrap_up,                \* <<marker seen, capabilities dropped>>
    total,                  \* debug counter of flushed events
    fuel,                   \* events left before a forced flush
    writer,                 \* records pushed to the EventWriter, in order
    panicked,               \* an assert! of the hook has fired
    clock,                  \* physical time of the last delivered event
    delivered,              \* number of events delivered so far
    markers,                \* number of epoch markers delivered so far
    dones,                  \* number of end-of-computation markers delivered
    text_at_head,           \* every Text event so far was first in its batch
    strict_times,           \* physical times so far were strictly increasing
    late_setup,             \* an Operates/Channels event came after an epoch marker
    late_marker,            \* an epoch marker came that was not first in its batch
    handed,                 \* relevant events of the batches up to the first
                            \* end-of-computation marker's, by delivery position
    step                    \* batches of the concrete scenario delivered

VARIABLES
    sockets,                \* the shared Vec<Option<TcpStream>>, indexed from 0
    poisoned,               \* the mutex was poisoned by a panic under the lock
    holder,                 \* thread holding the mutex, 0 when it is free
    pc,                     \* where each worker thread is in make_replayers
    cursor,                 \* per thread: next index of iter_mut().enumerate()
    acc,                    \* per thread: sources collected so far
    current,                \* per thread: its call's position in calls
    calls,                  \* every call made: arguments, outcome, sources
    config,                 \* worker_peers, source_peers and Some/None of a run
    dumps                   \* indices i for which the file "i.dump" can be opened

repVars == <<sockets, poisoned, holder, pc, cursor, acc, current, calls, config,
            dumps>>

logVars == <<new_frontier, allow_frontier_update, curr_frontier, buffer,
             wrap_up, total, fuel, writer, panicked, clock, delivered, markers,
             dones, text_at_head, strict_times, late_setup, late_marker, handed,
             step>>

vars == <<logVars, repVars>>

\* ------------------------------------------------------------------------
\* Pair<u64, Duration> of logformat, ordered lexicographically
\* ------------------------------------------------------------------------
Pair(a, b) == [first |-> a, second |-> b]

F00 == Pair(0, 0)

PairLess(p, q) ==
    \/ p.first < q.first
    \/ p.first = q.first /\ p.second < q.second

PairLeq(p, q) == p = q \/ PairLess(p, q)

\* ------------------------------------------------------------------------
\* TimelyEvent kinds. TextDone is a Text event whose content starts with
\* "[st] computation done", TextEpoch any other Text event, Other the
\* variants the hook ignores.
\* ------------------------------------------------------------------------
Execution == {"Progress", "Messages", "Schedule"}
Setup == {"Operates", "Channels"}
Kinds == Execution \cup Setup \cup {"TextEpoch", "TextDone", "Other"}

\* The kinds the exploration delivers: one or two of each arm of the match
Delivered ==
    {"Schedule", "Messages", "Operates", "TextEpoch", "TextDone", "Other"}

\* A delivered tuple: physical time and kind as the hook sees them, plus the
\* position in delivery order (seq) and the number of epoch markers
\* delivered before it (epoch), which the hook does not see.
Tuple(t, k, n, e) == [time |-> t, kind |-> k, seq |-> n, epoch |-> e]

\* ------------------------------------------------------------------------
\* Records pushed to the writer
\* ------------------------------------------------------------------------
ProgressRec(entries, origin) ==
    [rec |-> "Progress", updates |-> entries, by |-> origin]

MessagesRec(frontier, data, origin) ==
    [rec |-> "Messages", time |-> frontier, data |-> data, by |-> origin]

\* ------------------------------------------------------------------------
\* The closure's captured state as one record
\* ------------------------------------------------------------------------
Session ==
    [new_frontier |-> new_frontier,
     allow_frontier_update |-> allow_frontier_update,
     curr_frontier |-> curr_frontier,
     buffer |-> buffer,
     wrap_up |-> wrap_up,
     total |-> total,
     fuel |-> fuel,
     writer |-> writer,
     panicked |-> panicked]

\* fuel -= 1 on a usize, guarded by !wrap_up.1. At fuel = 0 the subtraction
\* overflows (a panic in a debug build).
BurnFuel(s) ==
    IF s.wrap_up[2] THEN s
    ELSE IF s.fuel = 0 THEN [s EXCEPT !.panicked = TRUE]
    ELSE [s EXCEPT !.fuel = s.fuel - 1]

\* the Progress/Messages/Schedule arm without the allow_frontier_update test
OnExecutionAlwaysStamps(s, tuple) ==
    LET b == BurnFuel(s) IN
    IF b.panicked THEN b
    ELSE [b EXCEPT
            !.new_frontier = Pair(b.new_frontier.first, tuple.time),
            !.allow_frontier_update = FALSE,
            !.buffer = Append(b.buffer, tuple)]

\* Progress(_) | Messages(_) | Schedule(_)
OnExecution(s, tuple) ==
    LET b == BurnFuel(s) IN
    IF b.panicked THEN b
    ELSE [b EXCEPT
            !.new_frontier =
                IF b.allow_frontier_update
                THEN Pair(b.new_frontier.first, tuple.time)
                ELSE b.new_frontier,
            !.allow_frontier_update = FALSE,
            !.buffer = Append(b.buffer, tuple)]

\* the Operates/Channels arm without its two assertions
OnSetupUnchecked(s, tuple) ==
    LET b == BurnFuel(s) IN
    IF b.panicked THEN b
    ELSE [b EXCEPT
            !.buffer = Append(b.buffer,
                              [tuple EXCEPT !.time = b.curr_frontier.second])]

\* Operates(_) | Channels(_)
OnSetup(s, tuple) ==
    LET b == BurnFuel(s) IN
    IF b.panicked THEN b
    ELSE IF b.new_frontier # F00 \/ b.new_frontier # b.curr_frontier
    THEN [b EXCEPT !.panicked = TRUE]
    ELSE [b EXCEPT
            !.buffer = Append(b.buffer,
                              [tuple EXCEPT !.time = b.curr_frontier.second])]

\* Text(e)
OnText(s, tuple) ==
    IF tuple.kind = "TextDone"
    THEN [s EXCEPT !.wrap_up = <<TRUE, FALSE>>]
    ELSE [s EXCEPT !.new_frontier =
                      Pair(s.new_frontier.first + 1, s.new_frontier.second)]

\* match &tuple.2
Match(s, tuple) ==
    CASE tuple.kind \in Execution -> OnExecution(s, tuple)
      [] tuple.kind \in Setup -> OnSetup(s, tuple)
      [] tuple.kind \in {"TextEpoch", "TextDone"} -> OnText(s, tuple)
      [] OTHER -> s

\* Flush, but the Progress record does not retract the committed frontier
FlushNoRetract(s, max_fuel) ==
    LET committed == s.new_frontier
        pushed == Append(s.writer,
                         ProgressRec(<<<<s.new_frontier, 1>>>>, "flush"))
    IN [s EXCEPT
          !.fuel = max_fuel,
          !.curr_frontier = committed,
          !.allow_frontier_update = TRUE,
          !.total = IF Len(s.buffer) > 0 THEN s.total + Len(s.buffer) ELSE s.total,
          !.writer = IF Len(s.buffer) > 0
                     THEN Append(pushed, MessagesRec(committed, s.buffer, "flush"))
                     ELSE pushed,
          !.buffer = <<>>]

\* Flush, but the Messages record goes out at the frontier just retracted
FlushAtRetracted(s, max_fuel) ==
    LET committed == s.new_frontier
        progress == ProgressRec(<<<<s.new_frontier, 1>>, <<s.curr_frontier, -1>>>>,
                                "flush")
        pushed == Append(s.writer, progress)
    IN [s EXCEPT
          !.fuel = max_fuel,
          !.curr_frontier = committed,
          !.allow_frontier_update = TRUE,
          !.total = IF Len(s.buffer) > 0 THEN s.total + Len(s.buffer) ELSE s.total,
          !.writer = IF Len(s.buffer) > 0
                     THEN Append(pushed,
                                 MessagesRec(s.curr_frontier, s.buffer, "flush"))
                     ELSE pushed,
          !.buffer = <<>>]

\* Flush, but the buffer is cloned into the record instead of moved out
FlushKeepsBuffer(s, max_fuel) ==
    LET committed == s.new_frontier
        progress == ProgressRec(<<<<s.new_frontier, 1>>, <<s.curr_frontier, -1>>>>,
                                "flush")
        pushed == Append(s.writer, progress)
    IN [s EXCEPT
          !.fuel = max_fuel,
          !.curr_frontier = committed,
          !.allow_frontier_update = TRUE,
          !.total = IF Len(s.buffer) > 0 THEN s.total + Len(s.buffer) ELSE s.total,
          !.writer = IF Len(s.buffer) > 0
                     THEN Append(pushed, MessagesRec(committed, s.buffer, "flush"))
                     ELSE pushed]

\* The body of the frontier advance: reset fuel, push the Progress record,
\* commit new_frontier, push the buffered events if there are any.
Flush(s, max_fuel) ==
    LET committed == s.new_frontier
        progress == ProgressRec(<<<<s.new_frontier, 1>>, <<s.curr_frontier, -1>>>>,
                                "flush")
        pushed == Append(s.writer, progress)
    IN [s EXCEPT
          !.fuel = max_fuel,
          !.curr_frontier = committed,
          !.allow_frontier_update = TRUE,
          !.total = IF Len(s.buffer) > 0 THEN s.total + Len(s.buffer) ELSE s.total,
          !.writer = IF Len(s.buffer) > 0
                     THEN Append(pushed, MessagesRec(committed, s.buffer, "flush"))
                     ELSE pushed,
          !.buffer = <<>>]

\* AdvanceFrontier, but only an epoch advance triggers the flush
AdvanceFrontierOnEpochOnly(s, max_fuel) ==
    IF ~s.wrap_up[2] /\ s.new_frontier.first > s.curr_frontier.first
    THEN Flush(s, max_fuel)
    ELSE s

\* if !wrap_up.1 { if new_frontier.first > curr_frontier.first || fuel == 0 {..} }
AdvanceFrontier(s, max_fuel) ==
    IF ~s.wrap_up[2]
       /\ (s.new_frontier.first > s.curr_frontier.first \/ s.fuel = 0)
    THEN Flush(s, max_fuel)
    ELSE s

\* One iteration of `for tuple in data.drain(..)`
ProcessTuple(s, tuple, max_fuel) ==
    LET m == Match(s, tuple) IN
    IF m.panicked THEN m ELSE AdvanceFrontier(m, max_fuel)

\* The whole loop over a batch; a panic unwinds out of the closure.
RECURSIVE ProcessBatch(_, _, _)
ProcessBatch(s, data, max_fuel) ==
    IF data = <<>> \/ s.panicked THEN s
    ELSE ProcessBatch(ProcessTuple(s, Head(data), max_fuel), Tail(data), max_fuel)

\* WrapUp, but the remaining buffered events are not written out
WrapUpDropsBuffer(s) ==
    IF s.panicked \/ ~(s.wrap_up[1] /\ ~s.wrap_up[2]) THEN s
    ELSE [s EXCEPT
            !.writer = Append(s.writer,
                              ProgressRec(<<<<s.curr_frontier, -1>>>>, "wrapup")),
            !.wrap_up = <<FALSE, TRUE>>]

\* WrapUp, but the pending frontier is retracted instead of the committed one
WrapUpRetractsPending(s) ==
    IF s.panicked \/ ~(s.wrap_up[1] /\ ~s.wrap_up[2]) THEN s
    ELSE LET remaining ==
                 IF Len(s.buffer) > 0
                 THEN Append(s.writer, MessagesRec(s.curr_frontier, s.buffer, "wrapup"))
                 ELSE s.writer
         IN [s EXCEPT
               !.writer = Append(remaining,
                                 ProgressRec(<<<<s.new_frontier, -1>>>>, "wrapup")),
               !.wrap_up = <<FALSE, TRUE>>]

\* if wrap_up.0 && !wrap_up.1 { ... } after the loop
WrapUp(s) ==
    IF s.panicked \/ ~(s.wrap_up[1] /\ ~s.wrap_up[2]) THEN s
    ELSE LET remaining ==
                 IF Len(s.buffer) > 0
                 THEN Append(s.writer, MessagesRec(s.curr_frontier, s.buffer, "wrapup"))
                 ELSE s.writer
         IN [s EXCEPT
               !.writer = Append(remaining,
                                 ProgressRec(<<<<s.curr_frontier, -1>>>>, "wrapup")),
               !.wrap_up = <<FALSE, TRUE>>]

\* The closure registered with log_register().insert("timely", ..)
Hook(s, data, max_fuel) == WrapUp(ProcessBatch(s, data, max_fuel))

\* ------------------------------------------------------------------------
\* Batches the instrumented computation may deliver: 1..MaxBatch events of
\* any kinds, physical times non-decreasing from the last delivered time.
\* ------------------------------------------------------------------------
NonDecreasing(ts, from) ==
    /\ \A i \in DOMAIN ts : from <= ts[i]
    /\ \A i \in DOMAIN ts : \A j \in DOMAIN ts : i < j => ts[i] <= ts[j]

Increasing(ts, from) ==
    /\ \A i \in DOMAIN ts : from < ts[i]
    /\ \A i \in DOMAIN ts : \A j \in DOMAIN ts : i < j => ts[i] < ts[j]

RECURSIVE CountKind(_, _, _)
CountKind(ks, kind, upto) ==
    IF upto = 0 THEN 0
    ELSE CountKind(ks, kind, upto - 1) + (IF ks[upto] = kind THEN 1 ELSE 0)

TextKinds == {"TextEpoch", "TextDone"}

TextOnlyAtHead(ks) == \A i \in DOMAIN ks : ks[i] \in TextKinds => i = 1

\* an Operates/Channels event of the batch has an epoch marker before it,
\* in this batch or in an earlier one
SetupAfterMarker(ks) ==
    \E i \in DOMAIN ks :
        ks[i] \in Setup /\ markers + CountKind(ks, "TextEpoch", i - 1) >= 1

Batch(ks, ts) ==
    [i \in DOMAIN ks |->
        Tuple(ts[i], ks[i], delivered + i,
              markers + CountKind(ks, "TextEpoch", i - 1))]

\* the delivery positions of the events of a batch that the hook buffers
Positions(data) == [i \in DOMAIN data |-> data[i].seq]

IsRelevant(tuple) == tuple.kind \in Execution \cup Setup

Relevant(data) == Positions(SelectSeq(data, IsRelevant))

\* ------------------------------------------------------------------------
\* Specification of one capture session
\* ------------------------------------------------------------------------
LogInit(max_fuel) ==
    /\ new_frontier = F00
    /\ allow_frontier_update = TRUE
    /\ curr_frontier = F00
    /\ buffer = <<>>
    /\ wrap_up = <<FALSE, FALSE>>
    /\ total = 0
    /\ fuel = max_fuel
    /\ writer = <<>>
    /\ panicked = FALSE
    /\ clock = 0
    /\ delivered = 0
    /\ markers = 0
    /\ dones = 0
    /\ text_at_head = TRUE
    /\ strict_times = TRUE
    /\ late_setup = FALSE
    /\ late_marker = FALSE
    /\ handed = <<>>
    /\ step = 0

Install(s) ==
    /\ new_frontier' = s.new_frontier
    /\ allow_frontier_update' = s.allow_frontier_update
    /\ curr_frontier' = s.curr_frontier
    /\ buffer' = s.buffer
    /\ wrap_up' = s.wrap_up
    /\ total' = s.total
    /\ fuel' = s.fuel
    /\ writer' = s.writer
    /\ panicked' = s.panicked

\* One invocation of the hook with the batch of kinds ks at times ts
Invoke(ks, ts, max_fuel) ==
    /\ ~panicked
    /\ NonDecreasing(ts, clock)
    /\ Install(Hook(Session, Batch(ks, ts), max_fuel))
    /\ clock' = ts[Len(ks)]
    /\ delivered' = delivered + Len(ks)
    /\ markers' = markers + CountKind(ks, "TextEpoch", Len(ks))
    /\ dones' = dones + CountKind(ks, "TextDone", Len(ks))
    /\ text_at_head' = (text_at_head /\ TextOnlyAtHead(ks))
    /\ strict_times' = (strict_times /\ Increasing(ts, clock))
    /\ late_setup' = (late_setup \/ SetupAfterMarker(ks))
    /\ late_marker' = (late_marker \/ \E i \in DOMAIN ks :
                                          ks[i] = "TextEpoch" /\ i > 1)
    /\ handed' = IF dones = 0 THEN handed \o Relevant(Batch(ks, ts)) ELSE handed
    /\ UNCHANGED repVars

Deliver ==
    /\ \E n \in 1..MaxBatch :
         /\ delivered + n <= MaxEvents
         /\ \E ks \in [1..n -> Delivered] :
              \E ts \in [1..n -> clock..MaxTime] : Invoke(ks, ts, MAX_FUEL)
    /\ step' = step

\* ------------------------------------------------------------------------
\* open_sockets and make_replayers
\* ------------------------------------------------------------------------
Threads == 1..MaxThreads

None == <<>>

Some(x) == <<x>>

Tcp(i) == [type |-> "Tcp", source |-> i]

File(i) == [type |-> "File", source |-> i]

\* the collection open_sockets(source_peers) returns: every slot filled, in
\* the order the connections were accepted
OpenSockets(source_peers) == [i \in 0..source_peers - 1 |-> Some(i)]

NumSockets == Cardinality(DOMAIN sockets)

\* .filter(|(i, _)| *i % worker_peers == worker_index), mutated
OwnsNext(i, worker_peers, worker_index) ==
    (i + 1) % worker_peers = worker_index

\* .filter(|(i, _)| *i % worker_peers == worker_index)
Owns(i, worker_peers, worker_index) == i % worker_peers = worker_index

\* s.take() that leaves the slot filled
KeepSlot(slots, i) == slots

\* s.take(): the slot is left empty
TakeSlot(slots, i) == [slots EXCEPT ![i] = None]

\* the offline arm: open "i.dump" for every owned i in 0..source_peers, in
\* order; the first file that cannot be opened panics
RECURSIVE OpenFiles(_, _, _, _, _)
OpenFiles(i, worker_index, worker_peers, source_peers, opened) ==
    IF i >= source_peers THEN [ok |-> TRUE, sources |-> opened]
    ELSE IF ~Owns(i, worker_peers, worker_index)
    THEN OpenFiles(i + 1, worker_index, worker_peers, source_peers, opened)
    ELSE IF i \notin dumps THEN [ok |-> FALSE, sources |-> <<>>]
    ELSE OpenFiles(i + 1, worker_index, worker_peers, source_peers,
                   Append(opened, File(i)))

Call(th, wi, wp, sp, online, outcome, sources) ==
    [worker_index |-> wi, worker_peers |-> wp,
     source_peers |-> sp, online |-> online, outcome |-> outcome,
     sources |-> sources]

\* The worker threads of one run pass the same worker_peers, source_peers
\* and collection (as the callers of make_replayers do with worker.peers()
\* and their Config) and any worker_index: Some(sockets) of any size for an
\* online run, None and the dump files on disk for an offline one.
ReplayInit ==
    /\ config \in [worker_peers : 1..MaxPeers, source_peers : 1..MaxPeers,
                    online : BOOLEAN]
    /\ IF config.online
       THEN /\ \E n \in 1..MaxPeers : sockets = OpenSockets(n)
            /\ dumps = {}
       ELSE /\ sockets = OpenSockets(0)
            /\ \E missing \in SUBSET (0..MaxPeers - 1) :
                  /\ Cardinality(missing) <= 1
                  /\ dumps = (0..MaxPeers - 1) \ missing
    /\ poisoned = FALSE
    /\ holder = 0
    /\ pc = [th \in Threads |-> "idle"]
    /\ cursor = [th \in Threads |-> 0]
    /\ acc = [th \in Threads |-> <<>>]
    /\ current = [th \in Threads |-> 0]
    /\ calls = <<>>

\* the replay variables of a state in which only a capture session runs
ReplayIdle ==
    /\ sockets = OpenSockets(0)
    /\ config = [worker_peers |-> 1, source_peers |-> 1, online |-> FALSE]
    /\ dumps = {}
    /\ poisoned = FALSE
    /\ holder = 0
    /\ pc = [th \in Threads |-> "idle"]
    /\ cursor = [th \in Threads |-> 0]
    /\ acc = [th \in Threads |-> <<>>]
    /\ current = [th \in Threads |-> 0]
    /\ calls = <<>>

Arguments(th) == calls[current[th]]

\* the assertion without its condition
PeersUnchecked(source_peers, worker_peers) == TRUE

\* the condition of assert!(source_peers == worker_peers, ..)
PeersMatch(source_peers, worker_peers) == source_peers = worker_peers

\* assert!(source_peers == worker_peers, ..) fails
CallAssertFails(th) ==
    /\ pc[th] = "idle"
    /\ Len(calls) < MaxCalls
    /\ ~PeersMatch(config.source_peers, config.worker_peers)
    /\ \E wi \in 0..MaxPeers - 1 :
          calls' = Append(calls, Call(th, wi, config.worker_peers,
                                      config.source_peers, config.online,
                                      "panicked", <<>>))
    /\ pc' = [pc EXCEPT ![th] = "panicked"]
    /\ current' = [current EXCEPT ![th] = Len(calls) + 1]
    /\ UNCHANGED <<sockets, poisoned, holder, cursor, acc, config, dumps, logVars>>

\* the call passes the assertion with Some(sockets): it goes for the lock
CallOnline(th) ==
    /\ pc[th] = "idle"
    /\ Len(calls) < MaxCalls
    /\ PeersMatch(config.source_peers, config.worker_peers)
    /\ config.online
    /\ \E wi \in 0..MaxPeers - 1 :
          calls' = Append(calls, Call(th, wi, config.worker_peers,
                                      config.source_peers, TRUE, "active", <<>>))
    /\ pc' = [pc EXCEPT ![th] = "lock"]
    /\ current' = [current EXCEPT ![th] = Len(calls) + 1]
    /\ UNCHANGED <<sockets, poisoned, holder, cursor, acc, config, dumps, logVars>>

\* the call passes the assertion with None: the whole file arm
CallOffline(th) ==
    /\ pc[th] = "idle"
    /\ Len(calls) < MaxCalls
    /\ PeersMatch(config.source_peers, config.worker_peers)
    /\ ~config.online
    /\ \E wi \in 0..MaxPeers - 1 :
          LET wp == config.worker_peers
              opened == OpenFiles(0, wi, wp, wp, <<>>)
          IN
          /\ calls' = Append(calls,
                  Call(th, wi, wp, wp, FALSE,
                       IF opened.ok THEN "returned" ELSE "panicked",
                       opened.sources))
          /\ pc' = [pc EXCEPT ![th] = IF opened.ok THEN "idle" ELSE "panicked"]
    /\ current' = [current EXCEPT ![th] = Len(calls) + 1]
    /\ UNCHANGED <<sockets, poisoned, holder, cursor, acc, config, dumps, logVars>>

\* sockets.lock().unwrap(): blocks while the mutex is held, panics when it
\* is poisoned
Lock(th) ==
    /\ pc[th] = "lock"
    /\ holder = 0
    /\ IF poisoned
       THEN /\ pc' = [pc EXCEPT ![th] = "panicked"]
            /\ calls' = [calls EXCEPT ![current[th]].outcome = "panicked"]
            /\ UNCHANGED <<holder, cursor, acc>>
       ELSE /\ pc' = [pc EXCEPT ![th] = "iter"]
            /\ holder' = th
            /\ cursor' = [cursor EXCEPT ![th] = 0]
            /\ acc' = [acc EXCEPT ![th] = <<>>]
            /\ UNCHANGED calls
    /\ UNCHANGED <<sockets, poisoned, current, config, dumps, logVars>>

\* one element of iter_mut().enumerate().filter(..).map(|(_, s)| s.take().unwrap())
Visit(th) ==
    /\ pc[th] = "iter"
    /\ cursor[th] < NumSockets
    /\ LET i == cursor[th]
           a == Arguments(th)
       IN IF ~Owns(i, a.worker_peers, a.worker_index)
          THEN /\ cursor' = [cursor EXCEPT ![th] = i + 1]
               /\ UNCHANGED <<sockets, poisoned, holder, pc, acc, calls>>
          ELSE IF sockets[i] = None
          THEN \* unwrap on None: the guard and the collected streams are dropped
               /\ pc' = [pc EXCEPT ![th] = "panicked"]
               /\ calls' = [calls EXCEPT ![current[th]].outcome = "panicked"]
               /\ poisoned' = TRUE
               /\ holder' = 0
               /\ acc' = [acc EXCEPT ![th] = <<>>]
               /\ UNCHANGED <<sockets, cursor>>
          ELSE /\ acc' = [acc EXCEPT ![th] = Append(acc[th], Tcp(sockets[i][1]))]
               /\ sockets' = TakeSlot(sockets, i)
               /\ cursor' = [cursor EXCEPT ![th] = i + 1]
               /\ UNCHANGED <<poisoned, holder, pc, calls>>
    /\ UNCHANGED <<current, config, dumps, logVars>>

\* .collect() is complete: the guard is dropped and the replayers returned
Return(th) ==
    /\ pc[th] = "iter"
    /\ cursor[th] = NumSockets
    /\ holder' = 0
    /\ calls' = [calls EXCEPT ![current[th]].outcome = "returned",
                              ![current[th]].sources = acc[th]]
    /\ acc' = [acc EXCEPT ![th] = <<>>]
    /\ pc' = [pc EXCEPT ![th] = "idle"]
    /\ UNCHANGED <<sockets, poisoned, cursor, current, config, dumps, logVars>>

\* make_replayers as run by the worker threads
ReplayNext ==
    \E th \in Threads :
        \/ CallAssertFails(th)
        \/ CallOnline(th)
        \/ CallOffline(th)
        \/ Lock(th)
        \/ Visit(th)
        \/ Return(th)

ReplayStart == LogInit(MAX_FUEL) /\ ReplayInit

SpecReplay == ReplayStart /\ [][ReplayNext]_vars

Init == LogInit(MAX_FUEL) /\ ReplayIdle

Next == Deliver

Spec == Init /\ [][Next]_vars

\* ------------------------------------------------------------------------
\* The concrete scenario: MAX_FUEL = 4 and the batches [Operates, Channels],
\* [Text(epoch), Schedule, Schedule, Messages], [Text(epoch), Schedule],
\* [Text(computation done)] at any non-decreasing physical times, followed
\* by further invocations of the hook, each with one event of any kind.
\* ------------------------------------------------------------------------
Script ==
    << <<"Operates", "Channels">>,
       <<"TextEpoch", "Schedule", "Schedule", "Messages">>,
       <<"TextEpoch", "Schedule">>,
       <<"TextDone">> >>

ScenarioBatch ==
    /\ step < Len(Script)
    /\ \E ts \in [1..Len(Script[step + 1]) -> clock..MaxTime] :
          Invoke(Script[step + 1], ts, ScenarioFuel)
    /\ step' = step + 1

ScenarioLater ==
    /\ step >= Len(Script)
    /\ step < Len(Script) + MaxLater
    /\ \E k \in Kinds :
          \E t \in clock..MaxTime : Invoke(<<k>>, <<t>>, ScenarioFuel)
    /\ step' = step + 1

ScenarioInit == LogInit(ScenarioFuel) /\ ReplayIdle

ScenarioNext == ScenarioBatch \/ ScenarioLater

SpecScenario == ScenarioInit /\ [][ScenarioNext]_vars

\* ------------------------------------------------------------------------
\* Reading the emitted records
\* ------------------------------------------------------------------------
FlushProgressAt ==
    {i \in 1..Len(writer) : writer[i].rec = "Progress" /\ writer[i].by = "flush"}

WrapUpProgressAt ==
    {i \in 1..Len(writer) : writer[i].rec = "Progress" /\ writer[i].by = "wrapup"}

MessagesAt == {i \in 1..Len(writer) : writer[i].rec = "Messages"}

Largest(S) == CHOOSE m \in S : \A x \in S : x <= m

Smallest(S) == CHOOSE m \in S : \A x \in S : m <= x

\* the frontier a flush's Progress record acquires
Acquired(i) == writer[i].updates[1][1]

\* the frontier committed by the last flush before record i
CommittedBefore(i) ==
    LET earlier == {j \in FlushProgressAt : j < i}
    IN IF earlier = {} THEN F00 ELSE Acquired(Largest(earlier))

LastCommitted == CommittedBefore(Len(writer) + 1)

RECURSIVE SumDeltas(_)
SumDeltas(updates) ==
    IF updates = <<>> THEN 0 ELSE Head(updates)[2] + SumDeltas(Tail(updates))

\* capabilities held after the first k records, the initial one included
RECURSIVE Held(_)
Held(k) ==
    IF k = 0 THEN 1
    ELSE Held(k - 1)
         + (IF writer[k].rec = "Progress" THEN SumDeltas(writer[k].updates) ELSE 0)

RECURSIVE DeltasOf(_, _)
DeltasOf(f, updates) ==
    IF updates = <<>> THEN 0
    ELSE (IF Head(updates)[1] = f THEN Head(updates)[2] ELSE 0)
         + DeltasOf(f, Tail(updates))

\* net delta of frontier f over the first k records
RECURSIVE Net(_, _)
Net(f, k) ==
    IF k = 0 THEN 0
    ELSE Net(f, k - 1)
         + (IF writer[k].rec = "Progress" THEN DeltasOf(f, writer[k].updates) ELSE 0)

Frontiers ==
    {F00, curr_frontier, new_frontier}
    \cup UNION {{writer[i].updates[j][1] : j \in DOMAIN writer[i].updates} :
                    i \in FlushProgressAt \cup WrapUpProgressAt}

SingleEpoch(data) == \A i \in DOMAIN data : \A j \in DOMAIN data :
                        data[i].epoch = data[j].epoch

\* ------------------------------------------------------------------------
\* C1: every flush commits a frontier strictly greater, in lexicographic
\* (epoch, physical_time) order, than the one committed by the previous
\* flush (than Frontier(0,0) for the first flush); the committed sequence is
\* therefore non-decreasing. Event times are delivered non-decreasing; the
\* formula asks for the claim only where they were even strictly increasing.
\* ------------------------------------------------------------------------
C1_CommittedStrictlyIncreasing ==
    strict_times =>
        \A i \in FlushProgressAt : PairLess(CommittedBefore(i), Acquired(i))

\* the committed frontiers never decrease
CommittedNonDecreasing ==
    \A i \in FlushProgressAt : PairLeq(CommittedBefore(i), Acquired(i))

\* ------------------------------------------------------------------------
\* C2: a flush's Progress record has exactly two entries, +1 for the newly
\* committed frontier and -1 for the one committed immediately before; with
\* the initial Frontier(0,0) counted as held, exactly one capability is held
\* after every record before wrap-up, and the wrap-up record, a single -1
\* for the committed frontier, brings the count to 0.
\* ------------------------------------------------------------------------
C2_CapabilityConserved ==
    /\ \A i \in FlushProgressAt :
          /\ Len(writer[i].updates) = 2
          /\ writer[i].updates[1][2] = 1
          /\ writer[i].updates[2] = <<CommittedBefore(i), -1>>
    /\ LastCommitted = curr_frontier
    /\ \A k \in 0..Len(writer) :
          (\A w \in WrapUpProgressAt : k < w) => Held(k) = 1
    /\ WrapUpProgressAt # {} =>
          LET w == Smallest(WrapUpProgressAt)
          IN /\ writer[w].updates = <<<<CommittedBefore(w), -1>>>>
             /\ Held(w) = 0

C2_Witness ==
    /\ Cardinality(FlushProgressAt) >= 2
    /\ WrapUpProgressAt # {}
    /\ LastCommitted.first >= 1

\* ------------------------------------------------------------------------
\* C3 as claimed: over the emitted Progress records every frontier nets 0
\* except the very first one, which nets +1 while no wrap-up has occurred.
\* The very first frontier is read either as Frontier(0,0) or as the first
\* frontier a record acquires; the formula asks for the claim only where
\* every flush committed a strictly greater frontier.
\* ------------------------------------------------------------------------
C3_FirstFrontierNetsOne ==
    (/\ FlushProgressAt # {}
     /\ \A i \in FlushProgressAt : PairLess(CommittedBefore(i), Acquired(i))) =>
        \E first \in {F00, Acquired(Smallest(FlushProgressAt))} :
            /\ \A f \in Frontiers \ {first} : Net(f, Len(writer)) = 0
            /\ WrapUpProgressAt = {} => Net(first, Len(writer)) = 1

\* C3 as amended: with the initial capability on Frontier(0,0) counted as an
\* acquisition that no record carries, every frontier nets 0 except the most
\* recently committed one, which nets +1 until wrap-up; every wrap-up record
\* retracts the frontier committed at that moment once.
C3_NetPerFrontier ==
    \A f \in Frontiers :
        Net(f, Len(writer)) + (IF f = F00 THEN 1 ELSE 0)
          = (IF f = LastCommitted THEN 1 ELSE 0)
            - Cardinality({w \in WrapUpProgressAt : CommittedBefore(w) = f})

C3_Witness ==
    /\ Cardinality(FlushProgressAt) >= 2
    /\ WrapUpProgressAt # {}
    /\ \E i \in FlushProgressAt : Acquired(i) \notin {F00, LastCommitted}
    /\ new_frontier # curr_frontier

\* ------------------------------------------------------------------------
\* C4: when Text markers are the first event of their batch, the buffer and
\* every emitted Messages record hold events of a single epoch only (no two
\* events separated in delivery order by an epoch marker), and no Messages
\* record is empty.
\* ------------------------------------------------------------------------
C4_SingleEpochBuffer ==
    text_at_head =>
        /\ SingleEpoch(buffer)
        /\ \A i \in MessagesAt :
              writer[i].data # <<>> /\ SingleEpoch(writer[i].data)

\* ------------------------------------------------------------------------
\* C5: every Operates/Channels event is emitted in a Messages record whose
\* frontier is Frontier(0,0), and is stamped with physical time 0.
\* ------------------------------------------------------------------------
C5_SetupAtZeroFrontier ==
    \A i \in MessagesAt : \A j \in DOMAIN writer[i].data :
        writer[i].data[j].kind \in Setup =>
            writer[i].time = F00 /\ writer[i].data[j].time = 0

\* ------------------------------------------------------------------------
\* C6: before wrap-up phase 2 a flush happens no later than the MAX_FUEL-th
\* Progress/Messages/Schedule event since the previous flush: once an event
\* has been processed the buffer holds fewer than MAX_FUEL events that
\* still wait for a flush, and no Messages record of a flush carries more
\* than MAX_FUEL events.
\* ------------------------------------------------------------------------
C6_FuelBound ==
    /\ (WrapUpProgressAt = {} /\ ~wrap_up[2]) =>
          /\ Len(buffer) <= MAX_FUEL
          /\ ~panicked => Len(buffer) < MAX_FUEL
    /\ \A i \in MessagesAt :
          (writer[i].by = "flush" /\ \A w \in WrapUpProgressAt : i < w)
              => Len(writer[i].data) <= MAX_FUEL

\* a flush forced by fuel alone, inside one epoch, with a full buffer
C6_Witness ==
    \E i \in FlushProgressAt :
        /\ \A w \in WrapUpProgressAt : i < w
        /\ Acquired(i).first = CommittedBefore(i).first
        /\ i + 1 \in MessagesAt
        /\ Len(writer[i + 1].data) = MAX_FUEL
        /\ \A j \in DOMAIN writer[i + 1].data :
              writer[i + 1].data[j].kind \in Execution

\* ------------------------------------------------------------------------
\* C7: once the wrap-up records have been emitted no further Progress or
\* Messages record is ever emitted, whatever batches follow: the wrap-up
\* Progress record is the last record and there is only one.
\* ------------------------------------------------------------------------
C7_WrapUpOnce ==
    /\ \A w \in WrapUpProgressAt : w = Len(writer)
    /\ Cardinality(WrapUpProgressAt) <= 1

\* ------------------------------------------------------------------------
\* C8: the output of the concrete scenario. Records are compared by kind,
\* frontier, deltas and the delivery positions of the events they carry;
\* t1 and t2 are the physical times of the first Schedule event of the
\* second and of the third batch (delivery positions 4 and 8).
\* ------------------------------------------------------------------------
Shape(r) ==
    IF r.rec = "Progress" THEN <<"Progress", r.updates>>
    ELSE <<"Messages", r.time, [i \in DOMAIN r.data |-> r.data[i].seq]>>

Output == [i \in DOMAIN writer |-> Shape(writer[i])]

EventTimes(n) ==
    UNION {{writer[i].data[j].time :
               j \in {k \in DOMAIN writer[i].data : writer[i].data[k].seq = n}} :
           i \in MessagesAt}

T1 == CHOOSE t \in EventTimes(4) : TRUE

T2 == CHOOSE t \in EventTimes(8) : TRUE

Returned == {c \in 1..Len(calls) : calls[c].outcome = "returned"}

Panicked == {c \in 1..Len(calls) : calls[c].outcome = "panicked"}

Online == {c \in 1..Len(calls) : calls[c].online}

\* worker_peers == source_peers = N, worker_index in 0..N, and online the
\* collection is the one open_sockets(N) returned
OneToOne(c) ==
    /\ calls[c].worker_peers = calls[c].source_peers
    /\ calls[c].worker_index < calls[c].worker_peers
    /\ calls[c].online => calls[c].source_peers = NumSockets

\* the slots a call selects, as the sources it must return, in index order
RECURSIVE SelectedFrom(_, _, _)
SelectedFrom(i, worker_peers, worker_index) ==
    IF i >= NumSockets THEN <<>>
    ELSE (IF Owns(i, worker_peers, worker_index) THEN <<Tcp(i)>> ELSE <<>>)
         \o SelectedFrom(i + 1, worker_peers, worker_index)

\* how often socket k was handed out: in returned vectors and in vectors
\* being collected
HandOuts(k) ==
    Cardinality({<<c, j>> \in Returned \X (1..MaxPeers) :
                    j <= Len(calls[c].sources) /\ calls[c].sources[j] = Tcp(k)})
    + Cardinality({<<th, j>> \in Threads \X (1..MaxPeers) :
                    j <= Len(acc[th]) /\ acc[th][j] = Tcp(k)})

\* ------------------------------------------------------------------------
\* C9: with worker_peers == source_peers = N and worker_index in 0..N a
\* call, online or offline, returns exactly one source, the one with index
\* worker_index; equal arguments give equal sources; over all worker indices
\* every source index in 0..N is selected exactly once; worker_index = 1
\* with N = 2 online receives socket slot 1 and leaves slot 0 filled.
\* ------------------------------------------------------------------------
C9_OneSourcePerWorker ==
    /\ \A c \in Returned :
          OneToOne(c) =>
              calls[c].sources =
                  <<IF calls[c].online THEN Tcp(calls[c].worker_index)
                                       ELSE File(calls[c].worker_index)>>
    /\ \A c \in Returned : \A d \in Returned :
          [calls[c] EXCEPT !.sources = <<>>] = [calls[d] EXCEPT !.sources = <<>>]
              => calls[c].sources = calls[d].sources
    /\ \A n \in 1..MaxPeers : \A i \in 0..n - 1 :
          Cardinality({wi \in 0..n - 1 : Owns(i, n, wi)}) = 1
    /\ \A c \in Returned :
          (/\ Online = {c}
           /\ NumSockets = 2
           /\ calls[c].worker_index = 1
           /\ calls[c].worker_peers = 2)
              => sockets[0] = Some(0) /\ sockets[1] = None

C9_Witness ==
    /\ NumSockets = 2
    /\ \E c \in Returned :
          /\ Online = {c}
          /\ calls[c].worker_index = 1
          /\ calls[c].worker_peers = 2
          /\ calls[c].source_peers = 2
    /\ Len(calls) = 1

\* the offline case of C9: both workers of two opened their dump file
C9_WitnessOffline ==
    /\ Cardinality(Returned) = 2
    /\ \A c \in Returned :
          ~calls[c].online /\ calls[c].worker_peers = 2 /\ calls[c].source_peers = 2
    /\ \E c \in Returned : calls[c].worker_index = 0
    /\ \E c \in Returned : calls[c].worker_index = 1

\* ------------------------------------------------------------------------
\* C10: under any interleaving of calls on the shared collection every
\* socket is handed out at most once and its slot is empty once it is
\* taken; a call only returns with a socket for every slot it selects, so a
\* call that meets an empty slot does not return; when every worker index
\* 0..N-1 calls exactly once, no call aborts and in the end every slot has
\* been taken exactly once.
\* ------------------------------------------------------------------------
EachIndexOnce ==
    /\ \A c \in 1..Len(calls) :
          /\ calls[c].online
          /\ calls[c].worker_peers = NumSockets
          /\ calls[c].source_peers = NumSockets
          /\ calls[c].worker_index < NumSockets
    /\ \A c \in 1..Len(calls) : \A d \in 1..Len(calls) :
          calls[c].worker_index = calls[d].worker_index => c = d

C10_TakenAtMostOnce ==
    /\ \A k \in DOMAIN sockets :
          /\ HandOuts(k) <= 1
          /\ HandOuts(k) = 1 => sockets[k] = None
    /\ \A c \in Returned :
          calls[c].online =>
              calls[c].sources =
                  SelectedFrom(0, calls[c].worker_peers, calls[c].worker_index)
    /\ EachIndexOnce =>
          /\ Panicked = {}
          /\ ~poisoned
          /\ Cardinality(Returned) = NumSockets =>
                \A k \in DOMAIN sockets : sockets[k] = None /\ HandOuts(k) = 1

\* two workers took their sockets, a repeated call met the empty slot
C10_Witness ==
    /\ NumSockets = 2
    /\ Len(calls) = 3
    /\ Cardinality(Returned) = 2
    /\ \A c \in Returned : OneToOne(c) /\ calls[c].online
    /\ \A k \in DOMAIN sockets : sockets[k] = None /\ HandOuts(k) = 1
    /\ \E c \in Panicked : OneToOne(c) /\ calls[c].online
    /\ poisoned

\* every worker index called once, concurrently, and all returned
C10_AllWorkers ==
    /\ NumSockets = 2
    /\ EachIndexOnce
    /\ Cardinality(Returned) = 2

\* ------------------------------------------------------------------------
\* C11: a call of make_replayers with source_peers # worker_peers aborts,
\* for every worker_index, online and offline, before it touches the shared
\* collection: it never waits for or holds the lock, no slot is taken and it
\* returns no socket and no file.
\* ------------------------------------------------------------------------
Mismatched == {c \in 1..Len(calls) : calls[c].source_peers # calls[c].worker_peers}

C11_MismatchFailsFirst ==
    /\ \A c \in Mismatched :
          calls[c].outcome = "panicked" /\ calls[c].sources = <<>>
    /\ \A th \in Threads :
          (current[th] \in Mismatched /\ pc[th] # "idle") =>
              pc[th] = "panicked" /\ holder # th /\ acc[th] = <<>>
    /\ Mismatched # {} =>
          /\ \A k \in DOMAIN sockets : sockets[k] = Some(k)
          /\ ~poisoned
          /\ Returned = {}

\* two workers of an online run with 1 worker peer and 2 source peers, one
\* with worker_index 0 (which owns every slot) and one with worker_index 1
C11_Witness ==
    /\ NumSockets = 2
    /\ Cardinality(Mismatched) = 2
    /\ \A c \in Mismatched :
          calls[c].online /\ calls[c].worker_peers = 1 /\ calls[c].source_peers = 2
    /\ \E c \in Mismatched : calls[c].worker_index = 0
    /\ \E c \in Mismatched : calls[c].worker_index = 1
    /\ \A th \in Threads : pc[th] = "panicked"

\* the offline case of C11: the dump file of the worker exists and is not opened
C11_WitnessOffline ==
    /\ \E c \in Mismatched :
          /\ ~calls[c].online
          /\ calls[c].worker_index \in dumps
          /\ calls[c].worker_index < calls[c].worker_peers

\* ------------------------------------------------------------------------
\* C12: an Operates or Channels event processed after an epoch marker has
\* been observed aborts the session: once such an event has been delivered
\* the hook has panicked, and the event is neither in the buffer nor in any
\* emitted Messages record.
\* ------------------------------------------------------------------------
LateSetup(data) ==
    \E j \in DOMAIN data : data[j].kind \in Setup /\ data[j].epoch >= 1

C12_LateSetupAborts ==
    /\ late_setup => panicked
    /\ ~LateSetup(buffer)
    /\ \A i \in MessagesAt : ~LateSetup(writer[i].data)

\* the late setup event was the last one delivered, after a flush that
\* carried an execution event, and it is what made the hook panic
C12_Witness ==
    /\ late_setup
    /\ panicked
    /\ ~late_marker
    /\ markers = 1
    /\ dones = 0
    /\ delivered = 3
    /\ new_frontier = curr_frontier
    /\ \E i \in MessagesAt : writer[i].data[1].kind \in Execution

\* ------------------------------------------------------------------------
\* C13: an epoch marker that is not the first event of its delivered batch
\* aborts the session.
\* ------------------------------------------------------------------------
C13_NonLeadingMarkerAborts == late_marker => panicked

\* ------------------------------------------------------------------------
\* C14: when the batch with the end-of-computation marker has been fully
\* processed, and not before, the hook emits a Messages record at
\* curr_frontier with the buffered events (only if there are any) and then
\* a Progress record whose only entry is -1 for curr_frontier, the frontier
\* most recently acquired; this retraction is the last record of the
\* session.
\* ------------------------------------------------------------------------
IsPrefix(a, b) == Len(a) <= Len(b) /\ a = SubSeq(b, 1, Len(a))

\* the records of the wrap-up whose Progress record is at position w
WrapUpShape(w) ==
    /\ writer[w].updates = <<<<CommittedBefore(w), -1>>>>
    /\ \A i \in MessagesAt :
          (writer[i].by = "wrapup" /\ i < w /\ \A v \in WrapUpProgressAt : ~(i < v /\ v < w))
              => /\ i = w - 1
                 /\ writer[i].time = CommittedBefore(w)
                 /\ writer[i].data # <<>>

C14_WrapUpLast ==
    /\ dones = 0 => WrapUpProgressAt = {}
    /\ (dones >= 1 /\ ~panicked) => WrapUpProgressAt # {}
    /\ \A w \in WrapUpProgressAt : WrapUpShape(w) /\ w = Len(writer)

\* the part of C14 that holds: the same with the retraction being the last
\* record only of a session with one end-of-computation marker, where the
\* buffer, which the wrap-up clones, still starts with the events of the
\* wrap-up's Messages record
C14_WrapUpAtBatchEnd ==
    /\ dones = 0 => WrapUpProgressAt = {}
    /\ (dones >= 1 /\ ~panicked) => WrapUpProgressAt # {}
    /\ \A w \in WrapUpProgressAt : WrapUpShape(w)
    /\ dones = 1 =>
          \A w \in WrapUpProgressAt :
              /\ w = Len(writer)
              /\ CommittedBefore(w) = curr_frontier
              /\ (w > 1 /\ writer[w - 1].by = "wrapup")
                    => IsPrefix(writer[w - 1].data, buffer)

\* ------------------------------------------------------------------------
\* C15: once wrap_up has reached phase 2 the hook is a no-op: an invocation
\* with any events leaves new_frontier, curr_frontier,
\* allow_frontier_update, buffer, fuel and wrap_up unchanged and emits
\* nothing.
\* ------------------------------------------------------------------------
C15_PhaseTwoNoOp ==
    [][wrap_up[2] =>
          UNCHANGED <<new_frontier, curr_frontier, allow_frontier_update,
                      buffer, fuel, wrap_up, writer>>]_vars

\* what phase 2 does keep: as long as no further end-of-computation marker
\* is delivered nothing is emitted and curr_frontier, fuel, wrap_up and
\* total stay as they are
PhaseTwoSilent ==
    [][(wrap_up[2] /\ dones' = dones) =>
          UNCHANGED <<writer, curr_frontier, fuel, wrap_up, total>>]_vars

\* ------------------------------------------------------------------------
\* C16: between two consecutive flushes new_frontier.second is assigned at
\* most once, by the first Progress/Messages/Schedule event processed after
\* the earlier flush: the frontier a flush commits carries the physical time
\* of the first such event since the previous flush, or the previously
\* committed physical time if there was none, and until the flush the
\* pending new_frontier.second is that time whatever events follow.
\* ------------------------------------------------------------------------
ExecutionIn(data) == {j \in DOMAIN data : data[j].kind \in Execution}

\* the physical time a window with these events leaves in new_frontier
WindowTime(data, committed) ==
    IF ExecutionIn(data) = {} THEN committed.second
    ELSE data[Smallest(ExecutionIn(data))].time

\* the events of the window closed by the flush at position i
FlushedBy(i) ==
    IF i + 1 \in MessagesAt /\ writer[i + 1].by = "flush"
    THEN writer[i + 1].data
    ELSE <<>>

C16_TimeOfFirstEvent ==
    /\ \A i \in FlushProgressAt :
          Acquired(i).second = WindowTime(FlushedBy(i), CommittedBefore(i))
    /\ new_frontier.second = WindowTime(buffer, curr_frontier)
    /\ allow_frontier_update = (ExecutionIn(buffer) = {})

\* a flush whose window held two execution events at different times, both
\* different from the time committed before
C16_Witness ==
    \E i \in FlushProgressAt :
        /\ Len(FlushedBy(i)) = 2
        /\ ExecutionIn(FlushedBy(i)) = {1, 2}
        /\ FlushedBy(i)[1].time # FlushedBy(i)[2].time
        /\ CommittedBefore(i).second # FlushedBy(i)[1].time
        /\ CommittedBefore(i) # F00

\* ------------------------------------------------------------------------
\* C17: the events delivered between two consecutive epoch markers are
\* split over Messages records that all lie within one epoch: when epoch
\* markers come first in their batch and no end-of-computation marker has
\* been delivered, any two Messages records that carry Progress/Messages/
\* Schedule events delivered between the same two markers have the same
\* frontier epoch.
\* ------------------------------------------------------------------------
EpochsOf(data) == {data[j].epoch : j \in ExecutionIn(data)}

C17_SplitWithinEpoch ==
    (text_at_head /\ dones = 0) =>
        \A i \in MessagesAt : \A j \in MessagesAt :
            EpochsOf(writer[i].data) \cap EpochsOf(writer[j].data) # {}
                => writer[i].time.first = writer[j].time.first

\* ------------------------------------------------------------------------
\* C18: an Operates or Channels event delivered before any epoch marker is
\* always accepted, whatever Progress/Messages/Schedule events were
\* processed before it: as long as no Text event has been delivered, the
\* only events that can abort the session being Operates and Channels, the
\* session has not aborted.
\* ------------------------------------------------------------------------
C18_EarlySetupAccepted == (markers = 0 /\ dones = 0) => ~panicked

\* ------------------------------------------------------------------------
\* C19: no relevant event is lost, duplicated or reordered: in a session
\* with exactly one end-of-computation marker that has not aborted, the
\* event lists of all emitted Messages records, concatenated in emission
\* order, are exactly the Progress/Messages/Schedule/Operates/Channels
\* events delivered up to the end of the marker's batch, in delivery order;
\* before the marker the same holds with the buffer appended.
\* ------------------------------------------------------------------------
RECURSIVE EmittedUpTo(_)
EmittedUpTo(k) ==
    IF k = 0 THEN <<>>
    ELSE EmittedUpTo(k - 1)
         \o (IF writer[k].rec = "Messages" THEN Positions(writer[k].data) ELSE <<>>)

Emitted == EmittedUpTo(Len(writer))

Acquires(p, f) ==
    /\ writer[p].rec = "Progress"
    /\ \E j \in DOMAIN writer[p].updates : writer[p].updates[j] = <<f, 1>>

Retracts(p, f) ==
    /\ writer[p].rec = "Progress"
    /\ \E j \in DOMAIN writer[p].updates : writer[p].updates[j] = <<f, -1>>

C20_AcquiredByRecord ==
    dones <= 1 =>
        \A i \in MessagesAt :
            /\ \E p \in 1..i - 1 :
                  /\ Acquires(p, writer[i].time)
                  /\ \A q \in p + 1..i - 1 : ~Retracts(q, writer[i].time)
            /\ writer[i].by = "flush" => Acquires(i - 1, writer[i].time)

\* C20 as amended: the capability on Frontier(0,0) is held from the start
\* without a record that acquires it. Counting it, exactly one capability
\* is held on the frontier of every Messages record when it is emitted; the
\* frontier is the committed one; in a flush the record immediately before
\* is the flush's Progress record, which acquires it; at wrap-up the record
\* immediately after is the one that retracts it.
C20_MessagesAtHeldFrontier ==
    dones <= 1 =>
        \A i \in MessagesAt :
            /\ Net(writer[i].time, i - 1)
                  + (IF writer[i].time = F00 THEN 1 ELSE 0) = 1
            /\ writer[i].time = CommittedBefore(i)
            /\ writer[i].by = "flush" =>
                  /\ i - 1 \in FlushProgressAt
                  /\ writer[i - 1].updates[1] = <<writer[i].time, 1>>
            /\ writer[i].by = "wrapup" =>
                  /\ i + 1 \in WrapUpProgressAt
                  /\ writer[i + 1].updates = <<<<writer[i].time, -1>>>>

\* Messages records of a flush and of the wrap-up, past Frontier(0,0)
C20_Witness ==
    /\ dones = 1
    /\ \E i \in MessagesAt : writer[i].by = "flush" /\ writer[i].time # F00
    /\ \E i \in MessagesAt : writer[i].by = "wrapup" /\ writer[i].time # F00

\* the wrap-up's Messages record at Frontier(0,0), before any Progress record
C20_WitnessInitial ==
    /\ dones = 1
    /\ 1 \in MessagesAt
    /\ writer[1].by = "wrapup"
    /\ writer[1].time = F00

====
